---------------------------- MODULE Spec2Model ----------------------------
(***************************************************************************)
(* Model of half_height_4gray_animated_logo_demo.ino: the Arduboy sketch   *)
(* that renders one half of the local frame buffer per frame, streams it   *)
(* to the ssd1306 over SPI and flips the controller's display start line.  *)
(*                                                                         *)
(* Three specifications share the definitions of this module:              *)
(*   Spec     setup() and loop() as whole handlers, driven by the          *)
(*            microsecond clock and the B button;                          *)
(*   SpecBus  setup() and loop() statement by statement, with the SPI      *)
(*            shift register as a separate hardware process;               *)
(*   SpecBar  the frame counter alone, for the bar position arithmetic.    *)
(***************************************************************************)
EXTENDS Integers, Sequences, FiniteSets, TLC

(***************************************************************************)
(* Machine arithmetic.  unsigned long is 32 bits wide on the AVR; a 32-bit *)
(* value is kept as the pair <<high 16 bits, low 16 bits>> so that every   *)
(* intermediate result stays within the integers the model checker has.    *)
(***************************************************************************)
W16 == 65536

W8 == 256

U32(hi, lo) == <<hi, lo>>

Add32(a, b) ==
  LET lo == a[2] + b[2]
      hi == a[1] + b[1] + (lo \div W16)
  IN  <<hi % W16, lo % W16>>

Sub32(a, b) ==
  LET lo == a[2] - b[2]
      hi == a[1] - b[1] - (IF lo < 0 THEN 1 ELSE 0)
  IN  <<(hi + W16) % W16, (lo + W16) % W16>>

Less32(a, b) == a[1] < b[1] \/ (a[1] = b[1] /\ a[2] < b[2])

Max(a, b) == IF a > b THEN a ELSE b

Min(a, b) == IF a < b THEN a ELSE b

Pow2(n) == 2 ^ n

Bit(v, b) == (v \div Pow2(b)) % 2

\* bitwise OR of two bytes
OrByte(a, b) ==
  LET o(i) == Pow2(i) * Max(Bit(a, i), Bit(b, i))
  IN  o(0) + o(1) + o(2) + o(3) + o(4) + o(5) + o(6) + o(7)

\* the bits lo..hi-1 of byte v, in place
BitsIn(v, lo, hi) == ((v % Pow2(hi)) \div Pow2(lo)) * Pow2(lo)

(***************************************************************************)
(* The local frame buffer arduboy.sBuffer: WIDTH*HEIGHT/8 bytes, byte      *)
(* (y/8)*WIDTH + x holds the pixels (x, 8*(y/8) .. 8*(y/8)+7), bit y%8.    *)
(* A buffer is kept as a sequence: byte k of the program is element k+1.   *)
(***************************************************************************)
WIDTH == 128

HEIGHT == 64

WHITE == 1

BLACK == 0

BufSize == (WIDTH * HEIGHT) \div 8

half_buf_sz == ((128 * 64) \div 8) \div 2

ZeroBuf == [j \in 1 .. BufSize |-> 0]

\* byte k of a buffer, k in 0 .. BufSize-1
Byte(buf, k) == buf[k + 1]

\* the table with the two gray rows exchanged
colors_swapped == << <<WHITE, WHITE>>, <<BLACK, WHITE>>, <<WHITE, BLACK>>, <<BLACK, BLACK>> >>

colors == << <<WHITE, WHITE>>, <<WHITE, BLACK>>, <<BLACK, WHITE>>, <<BLACK, BLACK>> >>

\* colors[r][c] with the C indices r in 0..3, c in 0..1
Color(r, c) == colors[r + 1][c + 1]

(***************************************************************************)
(* The drawing primitives change every byte of the buffer on its own, so   *)
(* each is given as what it does to byte k, whose value is v.              *)
(***************************************************************************)
\* arduboy.fillRect(x, y, w, h, color): every pixel of the rectangle that is on
\* the screen is set (WHITE) or cleared (BLACK)
fillRect(v, k, x, y, w, h, color) ==
  IF /\ k % WIDTH >= x
     /\ k % WIDTH < x + w
     /\ 8 * (k \div WIDTH) + 8 > y
     /\ 8 * (k \div WIDTH) < y + h
  THEN LET lo == Max(0, y - 8 * (k \div WIDTH))
           hi == Min(8, y + h - 8 * (k \div WIDTH))
       IN  IF color = BLACK
           THEN v - BitsIn(v, lo, hi)
           ELSE v - BitsIn(v, lo, hi) + (Pow2(hi) - Pow2(lo))
  ELSE v

\* lines 213-215: three rectangles side by side
test_pattern_rect(v, k, x, y, w, h, c_ofs, i_ph) ==
  LET seg(u, i) == fillRect(u, k, x + (i * w) \div 3, y, w \div 3, h,
                            Color((c_ofs + i) % 3, i_ph))
  IN  seg(seg(seg(v, 0), 1), 2)

LogoW == 88

LogoH == 16

\* ab_logo.c is not part of the sources at hand: the bitmap is a fixed pattern
\* of LogoW columns by LogoH/8 pages, with lit and dark pixels in both pages
arduboy_logo(i) == (37 * i + 11) % W8

\* arduboy.drawBitmap(x, y, bitmap, w, h, WHITE) for 0 <= y: each bitmap byte is
\* OR-ed into the page it starts in, shifted by y%8, and its overflow into the
\* page below
drawBitmap(v, k, x, y, w, h) ==
  LET yOffset == y % 8
      sRow    == y \div 8
      rows    == (h + 7) \div 8
      col     == k % WIDTH
      page    == k \div WIDTH
      iCol    == col - x
      a       == page - sRow
      up      == IF a >= 0 /\ a < rows
                 THEN (arduboy_logo(a * w + iCol) * Pow2(yOffset)) % W8
                 ELSE 0
      dn      == IF yOffset # 0 /\ a - 1 >= 0 /\ a - 1 < rows
                 THEN arduboy_logo((a - 1) * w + iCol) \div Pow2(8 - yOffset)
                 ELSE 0
  IN  IF iCol >= 0 /\ iCol < w /\ a >= 0 /\ a <= rows
      THEN OrByte(OrByte(v, up), dn)
      ELSE v

\* line 220
render_logo(v, k, y_ofs) == drawBitmap(v, k, 20, y_ofs, LogoW, LogoH)

\* lines 225-227
render_moving_bar(v, k, y_ofs, i_ph) ==
  LET b1 == test_pattern_rect(v, k, 16, y_ofs, 96, 2, 0, i_ph)
      b2 == test_pattern_rect(b1, k, 16, y_ofs + 2, 96, 2, 1, i_ph)
  IN  test_pattern_rect(b2, k, 16, y_ofs + 4, 96, 2, 2, i_ph)

(***************************************************************************)
(* render(): the geometry of one frame.                                    *)
(***************************************************************************)
top_line(i_ph) == IF i_ph # 0 THEN 0 ELSE 32

rt(frame_idx) == (frame_idx \div 9) % ((32 - 6) * 2)

front(frame_idx) == rt(frame_idx) > (32 - 6)

\* a bar position that is not folded back in the second half of the period
RectRelTopUnfolded(frame_idx) == rt(frame_idx)

rect_rel_top(frame_idx) ==
  IF front(frame_idx) THEN (32 - 6) * 2 - rt(frame_idx) ELSE rt(frame_idx)

\* the local half render() draws into, uploads and clears
RenderHalf(i_ph) == IF i_ph # 0 THEN 0 ELSE 1

\* a render() that always uploads and clears the first half
HalfBaseFirst(i_ph) == 0

\* first byte of that half: arduboy.sBuffer + (i_ph ? 0 : half_buf_sz)
HalfBase(i_ph) == IF i_ph # 0 THEN 0 ELSE half_buf_sz

\* lines 242-252 on byte k: the strips, the logo and the bar, the bar drawn
\* first when it is on its way back
DrawByte(v, k, frame_idx, i_ph) ==
  LET tl == top_line(i_ph)
      s1 == test_pattern_rect(v, k, 0, tl, 16, 3, 2, i_ph)
      s2 == test_pattern_rect(s1, k, 0, tl + 3, 16, 3, 0, i_ph)
  IN  IF front(frame_idx)
      THEN render_logo(render_moving_bar(s2, k, tl + rect_rel_top(frame_idx), i_ph),
                       k, tl + 8)
      ELSE render_moving_bar(render_logo(s2, k, tl + 8),
                             k, tl + rect_rel_top(frame_idx), i_ph)

\* lines 242-252: the buffer after the drawing calls of render()
DrawScene(buf, frame_idx, i_ph) ==
  [j \in 1 .. BufSize |-> DrawByte(buf[j], j - 1, frame_idx, i_ph)]

(***************************************************************************)
(* The command sequences of the sketch.                                    *)
(***************************************************************************)
CmdSetStartLine == 64      \* 0x40

CmdSetMux == 168           \* 0xA8

CmdSetOffset == 211        \* 0xD3

CmdSetZoom == 214          \* 0xD6

mode_center == <<CmdSetZoom, 0, CmdSetMux, 31, CmdSetOffset, 16>>

mode_top == <<CmdSetZoom, 0, CmdSetMux, 31, CmdSetOffset, 96>>

mode_bottom == <<CmdSetZoom, 0, CmdSetMux, 31, CmdSetOffset, 0>>

\* a mode_anim that does not fold the position back from 0x20 on
mode_anim_unfolded(fc) ==
  <<CmdSetZoom, 0, CmdSetMux, 31, CmdSetOffset, (fc \div 2) % 64>>

mode_anim(fc) ==
  LET pos == (fc \div 2) % 64
  IN  <<CmdSetZoom, 0, CmdSetMux, 31, CmdSetOffset,
        IF pos >= 32 THEN 63 - pos ELSE pos>>

mode_zoom == <<CmdSetMux, 63, CmdSetOffset, 0, CmdSetZoom, 1>>

NumModes == 5

\* the bytes mode_sel_fns[mode]() hands to sendcmds()
mode_sel_fns(mode, fc) ==
  CASE mode = 0 -> mode_center
    [] mode = 1 -> mode_top
    [] mode = 2 -> mode_bottom
    [] mode = 3 -> mode_anim(fc)
    [] mode = 4 -> mode_zoom

\* a select that drops the half's offset from the command
select_without_offset(idx) == <<CmdSetStartLine>>

\* the bytes ssd1306_select_gddram_half(idx) hands to sendcmds()
ssd1306_select_gddram_half(idx) == <<CmdSetStartLine + (IF idx # 0 THEN 32 ELSE 0)>>

(***************************************************************************)
(* The display controller as the program sees it: a byte received with the *)
(* D/C line low is a command or the operand of the two-byte command before *)
(* it; a start-line command 0x40..0x7F sets the start line register.       *)
(***************************************************************************)
\* the controller's display RAM: one byte per column and page, 64 rows
GddramSize == (WIDTH * HEIGHT) \div 8

\* gddram is the display RAM (1-indexed like the buffers) and ptr the write
\* pointer: a byte received with the D/C line high is stored at ptr, which
\* then advances by one and wraps after the last byte of the RAM
SsdReset == [start_line |-> 0, pending |-> 0, mux |-> 63, offset |-> 0, zoom |-> 0,
             gddram |-> [j \in 1 .. GddramSize |-> 0], ptr |-> 0]

IsStartLineCmd(s, mode, byte) ==
  mode = "cmd" /\ s.pending = 0 /\ byte >= CmdSetStartLine /\ byte < CmdSetStartLine + HEIGHT

SsdReceive(s, mode, byte) ==
  IF mode = "data"
  THEN [s EXCEPT !.gddram[s.ptr + 1] = byte, !.ptr = (s.ptr + 1) % GddramSize]
  ELSE IF s.pending = CmdSetMux    THEN [s EXCEPT !.mux = byte, !.pending = 0]
  ELSE IF s.pending = CmdSetOffset THEN [s EXCEPT !.offset = byte, !.pending = 0]
  ELSE IF s.pending = CmdSetZoom   THEN [s EXCEPT !.zoom = byte, !.pending = 0]
  ELSE IF byte \in {CmdSetMux, CmdSetOffset, CmdSetZoom} THEN [s EXCEPT !.pending = byte]
  ELSE IF IsStartLineCmd(s, mode, byte) THEN [s EXCEPT !.start_line = byte - CmdSetStartLine]
  ELSE s

\* the GDDRAM half a start line names: rows 0..31 or rows 32..63
ShownHalf(s) == IF s.start_line >= 32 THEN 1 ELSE 0

\* the pixel the panel shows at column x of row y of the displayed half
ShownPixel(s, x, y) ==
  Bit(s.gddram[ShownHalf(s) * half_buf_sz + (y \div 8) * WIDTH + x + 1], y % 8)

\* lines 243, 249 and 213-214: the second strip, at rows 3..5 of the half and
\* with c_ofs 0, draws colour row r in its segment r, whose first column is
\* (r*16)/3; the sample is the pixel shown there for r = 0, 1, 2
GraySample(s) == [r \in 0 .. 2 |-> ShownPixel(s, (r * 16) \div 3, 3)]

\* the samples of the last three tick bodies, the latest last
PushShown(h, sample) ==
  IF Len(h) < 3 THEN Append(h, sample) ELSE Append(Tail(h), sample)

(***************************************************************************)
(* The scheduler's constants.                                              *)
(***************************************************************************)
DEFAULT_FRAME_PERIOD_MS == 7572

SleepThreshold == 1500

NoByte == 0 - 1

(***************************************************************************)
(* Bounds of the model.                                                    *)
(***************************************************************************)
\* loop() calls in one behaviour
MaxCalls == 4

\* loop() calls in one behaviour of SpecBus
MaxBusCalls == 7

\* loop() calls explored by SpecRun, each of which runs the tick body
MaxRunTicks == 15

\* loop() calls explored by SpecAnim from each of its starting frames
MaxAnimTicks == 5

\* loop() calls explored by SpecIdle
MaxIdleCalls == 7

\* microseconds between two clock readings of successive loop() calls
ClockSteps == {U32(0, 0), U32(0, 1000), U32(0, DEFAULT_FRAME_PERIOD_MS)}

\* SpecBus fixes the time between two loop() calls; the pacing is checked
\* under Spec
BusClockSteps == {U32(0, 5000)}

\* clock readings a behaviour starts from: power-up, and a running sketch
\* shortly before the 32-bit microsecond counter wraps
LateClock == U32(W16 - 1, W16 - 12000)

\* SpecIdle: loop() is called again 1, 500 or 6071 microseconds later, which
\* brings rem to 1501, 1500 and 1499 within one frame period
IdleClockSteps == {U32(0, 1), U32(0, 500), U32(0, 6071)}

\* SpecRun: loop() is called again only after the deadline has passed
RunClockSteps == {U32(0, 8000)}

(***************************************************************************)
(* State.                                                                  *)
(***************************************************************************)
VARIABLES
  pc,            \* position of the program
  ret,           \* where the running sendcmds() or render() returns to
  sBuffer,       \* arduboy.sBuffer
  frameCount,    \* arduboy.frameCount, 16 bits
  three_stages, demo_mode, button_held,
  next_frame, frame_period,   \* 32 bits
  now,           \* the latest reading of micros(), 32 bits
  i_ph, frame_idx,            \* arguments of the running render()
  ofs, px,                    \* locals of render()
  cmdq,          \* bytes sendcmds() has still to send
  dc,            \* D/C line: "cmd" or "data"
  spif,          \* SPSR.SPIF
  shreg,         \* byte being shifted out, NoByte when the bus is idle
  wcol,          \* SPDR was written while a byte was being shifted out
  wire,          \* <<mode, byte>> received by the controller in this call
  ssd,           \* registers of the controller
  starts,        \* start-line commands received in this call
  snap,          \* sBuffer as the latest render() drew it, before the upload
  shown_at_render,   \* half shown when the latest render() began
  cur_half, prev_half,   \* local half of the latest render() and of the one before
  renders,       \* render() calls in this handler call
  ticks, calls,  \* tick bodies and loop() calls so far
  slept,         \* this loop() call entered sleep_mode()
  ticked,        \* this loop() call ran the tick body
  rem_seen,      \* rem as this loop() call computed it
  old_deadline,  \* next_frame before this loop() call
  old_frames,    \* arduboy.frameCount before this loop() call
  tick_at,       \* clock reading of the latest tick body, <<>> if none
  prev_tick_at,  \* clock reading of the tick body before it, <<>> if none
  paced,         \* every loop() call so far came frame_period after the one before
  shown_hist,    \* what the panel showed after each of the last three tick bodies
  bar_idx,       \* SpecBar: the frame index render() is given, 16 bits
  bar_n,         \* SpecBar: frames since the first frame of the period
  bar_top,       \* SpecBar: rect_rel_top of the frame bar_idx
  bar_prev,      \* SpecBar: rect_rel_top of the frame before it
  bar_fell       \* SpecBar: rect_rel_top went down earlier in the period

vars == <<pc, ret, sBuffer, frameCount, three_stages, demo_mode, button_held,
          next_frame, frame_period, now, i_ph, frame_idx, ofs, px, cmdq, dc,
          spif, shreg, wcol, wire, ssd, starts, snap, shown_at_render,
          cur_half, prev_half, renders, ticks, calls, slept, ticked, rem_seen,
          old_deadline, old_frames, tick_at, prev_tick_at, paced, shown_hist,
          bar_idx, bar_n, bar_top, bar_prev, bar_fell>>

progVars == <<sBuffer, frameCount, three_stages, demo_mode, button_held,
              next_frame, frame_period>>

schedHist == <<slept, ticked, rem_seen, old_deadline, old_frames, tick_at,
               prev_tick_at, paced>>

barHist == <<bar_idx, bar_n, bar_top, bar_prev, bar_fell>>

renderHist == <<snap, shown_at_render, cur_half, prev_half, renders>>

busVars == <<dc, spif, shreg, wcol, wire, ssd, starts>>

localVars == <<i_ph, frame_idx, ofs, px, cmdq>>

\* the state at power-up, after the static initialisers and before setup()
PowerUp ==
  /\ pc = "setup" /\ ret = "idle"
  /\ sBuffer = ZeroBuf
  /\ frameCount = 0 /\ three_stages = 0 /\ demo_mode = 0 /\ button_held = FALSE
  /\ next_frame = U32(0, 0) /\ frame_period = U32(0, 0)
  /\ now = U32(0, 0)
  /\ i_ph = 0 /\ frame_idx = 0 /\ ofs = 0 /\ px = 0 /\ cmdq = <<>>
  /\ dc = "data" /\ spif = TRUE /\ shreg = NoByte /\ wcol = FALSE
  /\ wire = <<>> /\ ssd = SsdReset /\ starts = 0
  /\ snap = ZeroBuf /\ shown_at_render = 0 /\ cur_half = NoByte /\ prev_half = NoByte
  /\ renders = 0
  /\ ticks = 0 /\ calls = 0
  /\ slept = FALSE /\ ticked = FALSE /\ rem_seen = U32(0, 0)
  /\ old_deadline = U32(0, 0) /\ old_frames = 0
  /\ tick_at = <<>> /\ prev_tick_at = <<>> /\ paced = TRUE
  /\ shown_hist = <<>>

\* SpecBar's bookkeeping, at rest in the other specifications
BarIdle ==
  bar_idx = 0 /\ bar_n = 0 /\ bar_top = 0 /\ bar_prev = 0 /\ bar_fell = FALSE

InitBoot == PowerUp /\ BarIdle

(***************************************************************************)
(* The SPI unit.  Writing SPDR starts shifting the byte out and clears     *)
(* SPIF; when the eighth bit is out the controller latches the byte with   *)
(* the D/C level of that moment and SPIF is raised.                        *)
(***************************************************************************)
Receive(B, mode, byte) ==
  [wire   |-> Append(B.wire, <<mode, byte>>),
   ssd    |-> SsdReceive(B.ssd, mode, byte),
   starts |-> B.starts + (IF IsStartLineCmd(B.ssd, mode, byte) THEN 1 ELSE 0)]

SpiWrite(b) ==
  IF shreg = NoByte
  THEN shreg' = b /\ spif' = FALSE /\ wcol' = wcol
  ELSE shreg' = shreg /\ spif' = spif /\ wcol' = TRUE

SpiComplete ==
  /\ shreg # NoByte
  /\ LET B == Receive([wire |-> wire, ssd |-> ssd, starts |-> starts], dc, shreg)
     IN  wire' = B.wire /\ ssd' = B.ssd /\ starts' = B.starts
  /\ spif' = TRUE
  /\ shreg' = NoByte
  /\ UNCHANGED <<barHist, shown_hist, pc, ret, progVars, now, localVars, dc, wcol, renderHist,
                 ticks, calls, schedHist>>

(***************************************************************************)
(* sendcmds(), statement by statement.                                     *)
(***************************************************************************)
\* line 124: arduboy.LCDCommandMode()
ScEnter ==
  /\ pc = "sc_enter"
  /\ dc' = "cmd"
  /\ pc' = "sc_wait0"
  /\ UNCHANGED <<barHist, shown_hist, ret, progVars, now, localVars, spif, shreg, wcol, wire, ssd,
                 starts, renderHist, ticks, calls, schedHist>>

\* a first wait with the test inverted, while (SPSR & _BV(SPIF))
ScWait0Inverted ==
  /\ pc = "sc_wait0"
  /\ ~spif
  /\ pc' = "sc_loop"
  /\ UNCHANGED <<barHist, shown_hist, ret, progVars, now, localVars, busVars, renderHist,
                 ticks, calls, schedHist>>

\* line 125: wait for SPIF
ScWait0 ==
  /\ pc = "sc_wait0"
  /\ spif
  /\ pc' = "sc_loop"
  /\ UNCHANGED <<barHist, shown_hist, ret, progVars, now, localVars, busVars, renderHist, ticks,
                 calls, schedHist>>

\* lines 126-127: while (len--) SPDR = *(cmds++)
ScSend ==
  /\ pc = "sc_loop"
  /\ cmdq # <<>>
  /\ SpiWrite(Head(cmdq))
  /\ cmdq' = Tail(cmdq)
  /\ pc' = "sc_wait"
  /\ UNCHANGED <<barHist, shown_hist, ret, progVars, now, i_ph, frame_idx, ofs, px, dc, wire, ssd,
                 starts, renderHist, ticks, calls, schedHist>>

\* line 128: wait for SPIF
ScWait ==
  /\ pc = "sc_wait"
  /\ spif
  /\ pc' = "sc_loop"
  /\ UNCHANGED <<barHist, shown_hist, ret, progVars, now, localVars, busVars, renderHist, ticks,
                 calls, schedHist>>

\* a sendcmds() that returns without arduboy.LCDDataMode()
ScExitNoDataMode ==
  /\ pc = "sc_loop"
  /\ cmdq = <<>>
  /\ pc' = ret
  /\ shown_hist' = IF ret = "idle" THEN PushShown(shown_hist, GraySample(ssd))
                   ELSE shown_hist
  /\ UNCHANGED <<barHist, ret, progVars, now, localVars, busVars, renderHist, ticks,
                 calls, schedHist>>

\* lines 126, 130: the loop ends, arduboy.LCDDataMode(), return
ScExit ==
  /\ pc = "sc_loop"
  /\ cmdq = <<>>
  /\ dc' = "data"
  /\ pc' = ret
  /\ shown_hist' = IF ret = "idle" THEN PushShown(shown_hist, GraySample(ssd))
                   ELSE shown_hist
  /\ UNCHANGED <<barHist, ret, progVars, now, localVars, spif, shreg, wcol, wire, ssd,
                 starts, renderHist, ticks, calls, schedHist>>

(***************************************************************************)
(* render(): the drawing, then the upload from one read of SPSR to the     *)
(* next.  The loop body reads and zeroes the next byte before it waits, so *)
(* at every wait of line 267 that byte is already in px and ofs is past it.*)
(***************************************************************************)
\* lines 237-252: draw the frame into the local half
RenderDraw ==
  /\ pc = "r_draw"
  /\ sBuffer' = DrawScene(sBuffer, frame_idx, i_ph)
  /\ snap' = sBuffer'
  /\ shown_at_render' = ShownHalf(ssd)
  /\ prev_half' = cur_half
  /\ cur_half' = RenderHalf(i_ph)
  /\ renders' = renders + 1
  /\ pc' = "r_first"
  /\ UNCHANGED <<barHist, shown_hist, ret, frameCount, three_stages, demo_mode,
                 button_held, next_frame, frame_period, now, localVars, busVars,
                 ticks, calls, schedHist>>

\* lines 258-265: SPDR = ptr[ofs]; ptr[ofs++] = 0; then the first pass of the
\* loop up to its wait: px = ptr[ofs]; ptr[ofs++] = 0
RenderFirst ==
  /\ pc = "r_first"
  /\ SpiWrite(Byte(sBuffer, HalfBase(i_ph)))
  /\ px' = Byte(sBuffer, HalfBase(i_ph) + 1)
  /\ sBuffer' = [sBuffer EXCEPT ![HalfBase(i_ph) + 1] = 0, ![HalfBase(i_ph) + 2] = 0]
  /\ ofs' = 2
  /\ pc' = "r_loop"
  /\ UNCHANGED <<barHist, shown_hist, ret, frameCount, three_stages, demo_mode,
                 button_held, next_frame, frame_period, now, i_ph, frame_idx, cmdq,
                 dc, wire, ssd, starts, renderHist, ticks, calls, schedHist>>

\* an upload loop that writes SPDR without the wait of line 267
RenderNextNoWait ==
  /\ pc = "r_loop"
  /\ SpiWrite(px)
  /\ IF ofs < half_buf_sz
     THEN /\ px' = Byte(sBuffer, HalfBase(i_ph) + ofs)
          /\ sBuffer' = [sBuffer EXCEPT ![HalfBase(i_ph) + ofs + 1] = 0]
          /\ ofs' = ofs + 1
          /\ pc' = "r_loop"
     ELSE /\ pc' = "r_last"
          /\ UNCHANGED <<px, sBuffer, ofs>>
  /\ UNCHANGED <<barHist, shown_hist, ret, frameCount, three_stages, demo_mode,
                 button_held, next_frame, frame_period, now, i_ph, frame_idx, cmdq,
                 dc, wire, ssd, starts, renderHist, ticks, calls, schedHist>>

\* lines 267-268, then 263-265: the wait for the previous byte ends; SPDR = px;
\* if ofs < half_buf_sz the next pass runs up to its wait, px = ptr[ofs];
\* ptr[ofs++] = 0, otherwise the loop ends and the wait of line 271 begins
RenderNext ==
  /\ pc = "r_loop"
  /\ spif
  /\ SpiWrite(px)
  /\ IF ofs < half_buf_sz
     THEN /\ px' = Byte(sBuffer, HalfBase(i_ph) + ofs)
          /\ sBuffer' = [sBuffer EXCEPT ![HalfBase(i_ph) + ofs + 1] = 0]
          /\ ofs' = ofs + 1
          /\ pc' = "r_loop"
     ELSE /\ pc' = "r_last"
          /\ UNCHANGED <<px, sBuffer, ofs>>
  /\ UNCHANGED <<barHist, shown_hist, ret, frameCount, three_stages, demo_mode,
                 button_held, next_frame, frame_period, now, i_ph, frame_idx, cmdq,
                 dc, wire, ssd, starts, renderHist, ticks, calls, schedHist>>

\* a render() that returns without the wait of line 271
RenderLastNoWait ==
  /\ pc = "r_last"
  /\ pc' = ret
  /\ UNCHANGED <<barHist, shown_hist, ret, progVars, now, localVars, busVars,
                 renderHist, ticks, calls, schedHist>>

\* line 271: wait for the last byte to shift out; return
RenderLast ==
  /\ pc = "r_last"
  /\ spif
  /\ pc' = ret
  /\ UNCHANGED <<barHist, shown_hist, ret, progVars, now, localVars, busVars,
                 renderHist, ticks, calls, schedHist>>

(***************************************************************************)
(* setup() and loop(), statement by statement.                             *)
(***************************************************************************)
\* lines 194-201: boot, frame_period, mode_sel_fns[demo_mode]()
SetupBegin ==
  /\ pc = "setup"
  /\ frame_period' = U32(0, DEFAULT_FRAME_PERIOD_MS)
  /\ cmdq' = mode_sel_fns(demo_mode, frameCount)
  /\ wire' = <<>> /\ starts' = 0 /\ renders' = 0
  /\ ret' = "setup_sel"
  /\ pc' = "sc_enter"
  /\ UNCHANGED <<barHist, shown_hist, sBuffer, frameCount, three_stages, demo_mode, button_held,
                 next_frame, now, i_ph, frame_idx, ofs, px, dc, spif, shreg,
                 wcol, ssd, snap, shown_at_render, cur_half, prev_half, ticks,
                 calls, schedHist>>

\* line 203: ssd1306_select_gddram_half(0)
SetupSelect ==
  /\ pc = "setup_sel"
  /\ cmdq' = ssd1306_select_gddram_half(0)
  /\ ret' = "setup_r0"
  /\ pc' = "sc_enter"
  /\ UNCHANGED <<barHist, shown_hist, progVars, now, i_ph, frame_idx, ofs, px, busVars, renderHist,
                 ticks, calls, schedHist>>

\* line 204: render(0, 0)
SetupRender0 ==
  /\ pc = "setup_r0"
  /\ frame_idx' = 0 /\ i_ph' = 0
  /\ ret' = "setup_r1"
  /\ pc' = "r_draw"
  /\ UNCHANGED <<barHist, shown_hist, progVars, now, ofs, px, cmdq, busVars, renderHist, ticks,
                 calls, schedHist>>

\* line 205: render(0, 1)
SetupRender1 ==
  /\ pc = "setup_r1"
  /\ frame_idx' = 0 /\ i_ph' = 1
  /\ ret' = "idle"
  /\ pc' = "r_draw"
  /\ UNCHANGED <<barHist, shown_hist, progVars, now, ofs, px, cmdq, busVars, renderHist, ticks,
                 calls, schedHist>>

\* the comparison of line 279 the wrong way round
TickDueReversed(rem, period) == ~Less32(period, rem)

\* line 279: the tick body runs unless rem < frame_period
TickDue(rem, period) == ~Less32(rem, period)

\* an early return that sleeps from rem = 1500 on
SleepDueInclusive(rem) == ~Less32(rem, U32(0, SleepThreshold))

\* line 280: the early return sleeps when rem > 1500
SleepDue(rem) == Less32(U32(0, SleepThreshold), rem)

\* a deadline that advances from the deadline before it, next_frame += frame_period
DeadlineFromDeadline(t, deadline, period) == Add32(deadline, period)

\* line 286
NextDeadline(t, deadline, period) == Add32(t, period)

\* a stage counter that wraps one stage early
TwoStagesNext(s) == IF (s + 1) % W8 > 1 THEN 0 ELSE (s + 1) % W8

\* lines 298-300: if (++three_stages > 2) three_stages = 0
ThreeStagesNext(s) == IF (s + 1) % W8 > 2 THEN 0 ELSE (s + 1) % W8

\* the phase of line 302 inverted
PhaseInverted(s) == IF s # 0 THEN 0 ELSE 1

\* line 302
PhaseOf(s) == IF s # 0 THEN 1 ELSE 0

\* a tick body that renders in every stage
RenderAlways(s) == TRUE

\* line 303
RenderDue(s) == s # 2

\* a select of the other half
SelectOther(ip) == 1 - ip

\* line 308: the argument of ssd1306_select_gddram_half() in loop()
SelectArg(ip) == ip

\* button logic without the held flag test: every pressed sample advances
ButtonNextRepeat(dm, bh, pressed) ==
  IF pressed
  THEN [demo_mode   |-> IF (dm + 1) % W8 >= NumModes THEN 0 ELSE (dm + 1) % W8,
        button_held |-> TRUE]
  ELSE [demo_mode |-> dm, button_held |-> FALSE]

\* lines 311-320
ButtonNext(dm, bh, pressed) ==
  IF pressed
  THEN IF ~bh
       THEN [demo_mode   |-> IF (dm + 1) % W8 >= NumModes THEN 0 ELSE (dm + 1) % W8,
             button_held |-> TRUE]
       ELSE [demo_mode |-> dm, button_held |-> bh]
  ELSE [demo_mode |-> dm, button_held |-> FALSE]

\* lines 277-285: loop() returns early, d microseconds after the last reading
loop_idle(d, bound) ==
  LET t   == Add32(now, d)
      rem == Sub32(next_frame, t)
  IN  /\ pc = "idle"
      /\ calls < bound
      /\ ~TickDue(rem, frame_period)
      /\ now' = t
      /\ slept' = SleepDue(rem)
      /\ ticked' = FALSE
      /\ rem_seen' = rem
      /\ old_deadline' = next_frame
      /\ old_frames' = frameCount
      /\ paced' = (paced /\ d = frame_period)
      /\ calls' = calls + 1
      /\ wire' = <<>> /\ starts' = 0 /\ renders' = 0
      /\ UNCHANGED <<barHist, shown_hist, pc, ret, progVars, localVars, dc, spif, shreg, wcol, ssd,
                     snap, shown_at_render, cur_half, prev_half, ticks,
                     tick_at, prev_tick_at>>

\* lines 277-305: loop() starts a tick body, up to the call of render()
LoopBegin(d) ==
  LET t   == Add32(now, d)
      rem == Sub32(next_frame, t)
      ts  == ThreeStagesNext(three_stages)
      fc  == (frameCount + 1) % W16
  IN  /\ pc = "idle"
      /\ calls < MaxBusCalls
      /\ TickDue(rem, frame_period)
      /\ now' = t
      /\ next_frame' = NextDeadline(t, next_frame, frame_period)
      /\ frameCount' = fc
      /\ three_stages' = ts
      /\ i_ph' = PhaseOf(ts)
      /\ IF RenderDue(ts)
         THEN frame_idx' = fc /\ ret' = "loop_sel" /\ pc' = "r_draw"
         ELSE frame_idx' = frame_idx /\ ret' = ret /\ pc' = "loop_btn"
      /\ slept' = FALSE
      /\ ticked' = TRUE
      /\ rem_seen' = rem
      /\ old_deadline' = next_frame
      /\ old_frames' = frameCount
      /\ paced' = (paced /\ d = frame_period)
      /\ prev_tick_at' = tick_at
      /\ tick_at' = t
      /\ calls' = calls + 1
      /\ ticks' = ticks + 1
      /\ wire' = <<>> /\ starts' = 0 /\ renders' = 0
      /\ UNCHANGED <<barHist, shown_hist, sBuffer, demo_mode, button_held, frame_period, ofs, px,
                     cmdq, dc, spif, shreg, wcol, ssd, snap, shown_at_render,
                     cur_half, prev_half>>

\* line 308: ssd1306_select_gddram_half(i_ph)
LoopSelect ==
  /\ pc = "loop_sel"
  /\ cmdq' = ssd1306_select_gddram_half(SelectArg(i_ph))
  /\ ret' = "loop_btn"
  /\ pc' = "sc_enter"
  /\ UNCHANGED <<barHist, shown_hist, progVars, now, i_ph, frame_idx, ofs, px, busVars, renderHist,
                 ticks, calls, schedHist>>

\* lines 311-321: the B button, then mode_sel_fns[demo_mode]()
LoopButton(pressed) ==
  LET n == ButtonNext(demo_mode, button_held, pressed)
  IN  /\ pc = "loop_btn"
      /\ demo_mode' = n.demo_mode
      /\ button_held' = n.button_held
      /\ cmdq' = mode_sel_fns(n.demo_mode, frameCount)
      /\ ret' = "idle"
      /\ pc' = "sc_enter"
      /\ UNCHANGED <<barHist, shown_hist, sBuffer, frameCount, three_stages, next_frame,
                     frame_period, now, i_ph, frame_idx, ofs, px, busVars,
                     renderHist, ticks, calls, schedHist>>

NextBus ==
  \/ SetupBegin \/ SetupSelect \/ SetupRender0 \/ SetupRender1
  \/ ScEnter \/ ScWait0 \/ ScSend \/ ScWait \/ ScExit
  \/ RenderDraw \/ RenderFirst \/ RenderNext \/ RenderLast
  \/ \E d \in BusClockSteps : loop_idle(d, MaxBusCalls)
  \/ \E d \in BusClockSteps : LoopBegin(d)
  \/ LoopSelect
  \/ \E pressed \in BOOLEAN : LoopButton(pressed)
  \/ SpiComplete

(***************************************************************************)
(* setup() and loop() as whole handlers.  B is what the controller has     *)
(* received: [wire, ssd, starts].                                          *)
(***************************************************************************)
RECURSIVE sendcmds(_, _)
\* lines 122-131: every byte goes out in command mode, in order
sendcmds(B, cmds) ==
  IF cmds = <<>> THEN B
  ELSE sendcmds(Receive(B, "cmd", Head(cmds)), Tail(cmds))

\* lines 258-271: the bytes of the half, in ascending order, in data mode
Upload(B, buf, ip) ==
  [B EXCEPT !.wire = B.wire \o [i \in 1 .. half_buf_sz |->
                                  <<"data", Byte(buf, HalfBase(ip) + i - 1)>>],
            !.ssd = [B.ssd EXCEPT
                       !.gddram = [j \in 1 .. GddramSize |->
                                     LET at == (j - 1 + GddramSize - B.ssd.ptr) % GddramSize
                                     IN  IF at < half_buf_sz
                                         THEN Byte(buf, HalfBase(ip) + at)
                                         ELSE B.ssd.gddram[j]],
                       !.ptr = (B.ssd.ptr + half_buf_sz) % GddramSize]]

\* lines 262, 265: every byte of the half is zeroed as it is read
ClearHalf(buf, ip) ==
  [j \in 1 .. BufSize |->
     IF j - 1 >= HalfBase(ip) /\ j - 1 < HalfBase(ip) + half_buf_sz
     THEN 0 ELSE buf[j]]

\* lines 230-272
render(buf, B, fidx, ip) ==
  LET drawn == DrawScene(buf, fidx, ip)
  IN  [buf |-> ClearHalf(drawn, ip), bus |-> Upload(B, drawn, ip), drawn |-> drawn]

\* lines 193-206
setup ==
  LET B0 == [wire |-> <<>>, ssd |-> ssd, starts |-> 0]
      B2 == sendcmds(sendcmds(B0, mode_sel_fns(demo_mode, frameCount)),
                     ssd1306_select_gddram_half(0))
      d0 == DrawScene(sBuffer, 0, 0)
  IN  /\ pc = "setup"
      /\ frame_period' = U32(0, DEFAULT_FRAME_PERIOD_MS)
      /\ starts' = B2.starts
      /\ snap' = DrawScene(ClearHalf(d0, 0), 0, 1)
      /\ sBuffer' = ClearHalf(snap', 1)
      /\ wire' = Upload(Upload(B2, d0, 0), snap', 1).wire
      /\ ssd' = Upload(Upload(B2, d0, 0), snap', 1).ssd
      /\ shown_at_render' = ShownHalf(ssd')
      /\ prev_half' = RenderHalf(0)
      /\ cur_half' = RenderHalf(1)
      /\ renders' = 2
      /\ frame_idx' = 0 /\ i_ph' = 1
      /\ ofs' = half_buf_sz
      /\ px' = Byte(snap', HalfBase(1) + half_buf_sz - 1)
      /\ cmdq' = <<>>
      /\ ret' = "idle"
      /\ pc' = "idle"
      /\ UNCHANGED <<barHist, shown_hist, frameCount, three_stages, demo_mode, button_held,
                     next_frame, now, dc, spif, shreg, wcol, ticks, calls,
                     schedHist>>

\* lines 276-322 when the tick body runs, d microseconds after the last reading
loop_tick(d, pressed, bound) ==
  LET t   == Add32(now, d)
      rem == Sub32(next_frame, t)
      ts  == ThreeStagesNext(three_stages)
      fc  == (frameCount + 1) % W16
      ip  == PhaseOf(ts)
      B0  == [wire |-> <<>>, ssd |-> ssd, starts |-> 0]
      B1  == IF RenderDue(ts)
             THEN sendcmds(Upload(B0, snap', ip),
                           ssd1306_select_gddram_half(SelectArg(ip)))
             ELSE B0
      n   == ButtonNext(demo_mode, button_held, pressed)
      B2  == sendcmds(B1, mode_sel_fns(n.demo_mode, fc))
  IN  /\ pc = "idle"
      /\ calls < bound
      /\ TickDue(rem, frame_period)
      /\ now' = t
      /\ next_frame' = NextDeadline(t, next_frame, frame_period)
      /\ frameCount' = fc
      /\ three_stages' = ts
      /\ i_ph' = ip
      /\ IF RenderDue(ts)
         THEN /\ snap' = DrawScene(sBuffer, fc, ip)
              /\ sBuffer' = ClearHalf(snap', ip)
              /\ shown_at_render' = ShownHalf(ssd)
              /\ prev_half' = cur_half
              /\ cur_half' = RenderHalf(ip)
              /\ renders' = 1
              /\ frame_idx' = fc
              /\ ofs' = half_buf_sz
              /\ px' = Byte(snap', HalfBase(ip) + half_buf_sz - 1)
         ELSE /\ renders' = 0
              /\ UNCHANGED <<sBuffer, snap, shown_at_render, prev_half,
                             cur_half, frame_idx, ofs, px>>
      /\ ret' = "idle"
      /\ demo_mode' = n.demo_mode
      /\ button_held' = n.button_held
      /\ wire' = B2.wire /\ ssd' = B2.ssd /\ starts' = B2.starts
      /\ cmdq' = <<>>
      /\ slept' = FALSE
      /\ ticked' = TRUE
      /\ rem_seen' = rem
      /\ old_deadline' = next_frame
      /\ old_frames' = frameCount
      /\ paced' = (paced /\ d = frame_period)
      /\ prev_tick_at' = tick_at
      /\ tick_at' = t
      /\ calls' = calls + 1
      /\ ticks' = ticks + 1
      /\ shown_hist' = PushShown(shown_hist, GraySample(ssd'))
      /\ UNCHANGED <<barHist, pc, frame_period, dc, spif, shreg, wcol>>

\* what setup() leaves in the buffer and on the bus, from power-up
AfterSetup ==
  LET B0 == [wire |-> <<>>, ssd |-> SsdReset, starts |-> 0]
      B2 == sendcmds(sendcmds(B0, mode_sel_fns(0, 0)), ssd1306_select_gddram_half(0))
      r0 == render(ZeroBuf, B2, 0, 0)
  IN  render(r0.buf, r0.bus, 0, 1)

\* the state in which setup() has returned and loop() has not been called yet
InitRunning ==
  /\ pc = "idle" /\ ret = "idle"
  /\ sBuffer = AfterSetup.buf
  /\ frameCount = 0 /\ three_stages = 0 /\ demo_mode = 0 /\ button_held = FALSE
  /\ next_frame = U32(0, 0) /\ frame_period = U32(0, DEFAULT_FRAME_PERIOD_MS)
  /\ now = U32(0, 0)
  /\ i_ph = 1 /\ frame_idx = 0 /\ ofs = half_buf_sz
  /\ px = Byte(AfterSetup.drawn, HalfBase(1) + half_buf_sz - 1)
  /\ cmdq = <<>>
  /\ dc = "data" /\ spif = TRUE /\ shreg = NoByte /\ wcol = FALSE
  /\ wire = AfterSetup.bus.wire /\ ssd = AfterSetup.bus.ssd
  /\ starts = AfterSetup.bus.starts
  /\ snap = AfterSetup.drawn /\ shown_at_render = 0
  /\ cur_half = RenderHalf(1) /\ prev_half = RenderHalf(0)
  /\ renders = 2
  /\ ticks = 0 /\ calls = 0
  /\ slept = FALSE /\ ticked = FALSE /\ rem_seen = U32(0, 0)
  /\ old_deadline = U32(0, 0) /\ old_frames = 0
  /\ tick_at = <<>> /\ prev_tick_at = <<>> /\ paced = TRUE
  /\ shown_hist = <<>>
  /\ BarIdle

\* SpecBus starts at power-up or where setup() has returned
InitBus == InitBoot \/ InitRunning

SpecBus == InitBus /\ [][NextBus]_vars

\* the statements of a setup() or loop() call that has begun
ProgramStep ==
  \/ SetupBegin \/ SetupSelect \/ SetupRender0 \/ SetupRender1
  \/ ScEnter \/ ScWait0 \/ ScSend \/ ScWait \/ ScExit
  \/ RenderDraw \/ RenderFirst \/ RenderNext \/ RenderLast
  \/ LoopSelect
  \/ \E pressed \in BOOLEAN : LoopButton(pressed)

\* the processor keeps executing the call it is in, and a byte written to
\* SPDR is shifted out and raises SPIF
SpecBusLive == SpecBus /\ WF_vars(ProgramStep) /\ WF_vars(SpiComplete)

\* the tick body that brought the frame counter to its last value before the
\* wrap: stage 0, so render(65535, 0) and ssd1306_select_gddram_half(0), with
\* the controller as the tick before it left it
LateTick ==
  LET \* the display RAM after the two uploads before it: rows 0..31 hold the
      \* picture of frame 65533 at stage 1, rows 32..63 the picture of frame
      \* 65532 at stage 0, and the write pointer stands at row 32
      ram == [j \in 1 .. GddramSize |->
                IF j <= half_buf_sz THEN DrawByte(0, j - 1, W16 - 3, 1)
                ELSE DrawByte(0, j - 1, W16 - 4, 0)]
      B0 == [wire |-> <<>>,
             ssd |-> [SsdReset EXCEPT !.start_line = 32, !.mux = 31, !.offset = 16,
                                      !.gddram = ram, !.ptr = half_buf_sz],
             starts |-> 0]
      r  == render(ZeroBuf, B0, W16 - 1, 0)
  IN  [buf |-> r.buf, drawn |-> r.drawn,
       bus |-> sendcmds(sendcmds(r.bus, ssd1306_select_gddram_half(SelectArg(0))),
                        mode_center)]

\* a sketch that has been running for a while: the state the tick body of
\* frame 65535 leaves, at the clock reading LateClock shortly before the
\* microsecond counter wraps; the history variables start afresh
InitLate ==
  /\ pc = "idle" /\ ret = "idle"
  /\ sBuffer = LateTick.buf
  /\ frameCount = W16 - 1 /\ three_stages = 0 /\ demo_mode = 0
  /\ button_held = FALSE
  /\ now = LateClock
  /\ next_frame = NextDeadline(LateClock, LateClock, U32(0, DEFAULT_FRAME_PERIOD_MS))
  /\ frame_period = U32(0, DEFAULT_FRAME_PERIOD_MS)
  /\ i_ph = 0 /\ frame_idx = W16 - 1 /\ ofs = half_buf_sz
  /\ px = Byte(LateTick.drawn, HalfBase(0) + half_buf_sz - 1)
  /\ cmdq = <<>>
  /\ dc = "data" /\ spif = TRUE /\ shreg = NoByte /\ wcol = FALSE
  /\ wire = LateTick.bus.wire /\ ssd = LateTick.bus.ssd
  /\ starts = LateTick.bus.starts
  /\ snap = LateTick.drawn /\ shown_at_render = 1
  /\ cur_half = RenderHalf(0) /\ prev_half = RenderHalf(1)
  /\ renders = 1
  /\ ticks = 0 /\ calls = 0
  /\ slept = FALSE /\ ticked = FALSE /\ rem_seen = U32(0, 0)
  /\ old_deadline = next_frame /\ old_frames = frameCount
  /\ tick_at = <<>> /\ prev_tick_at = <<>> /\ paced = TRUE
  /\ shown_hist = <<>>
  /\ BarIdle

Init == InitBoot \/ InitLate

Next ==
  \/ setup
  \/ \E d \in ClockSteps : loop_idle(d, MaxCalls)
  \/ \E d \in ClockSteps, pressed \in BOOLEAN : loop_tick(d, pressed, MaxCalls)

Spec == Init /\ [][Next]_vars

(***************************************************************************)
(* render() on its own: a tick body of a running sketch is about to call   *)
(* render(frame_idx, i_ph) on the cleared buffer.  The frame indices are   *)
(* one for each value of rt, the last frame of a 9-frame step and the last *)
(* 16-bit value.  The controller is as the tick bodies before left it:     *)
(* stage-1 pictures go to rows 0..31 of the display RAM and are followed   *)
(* by 0x60, stage-0 pictures go to rows 32..63 and are followed by 0x40.   *)
(***************************************************************************)
DrawFrames == {9 * k : k \in 0 .. (32 - 6) * 2 - 1} \cup {8, W16 - 1}

\* the frame of the latest render() before the tick body of frame f that
\* renders with phase ip: the tick before it for stage 1, two ticks before it
\* for stage 0
DrawPrevFrame(f, ip) == (f + W16 - (IF ip # 0 THEN 1 ELSE 2)) % W16

\* the number of the tick body that calls render(f, ip) with the controller in
\* its running state: frameCount is the tick number modulo 2^16, three_stages
\* is the tick number modulo 3, and the two renders before it were tick bodies
DrawTick(f, ip) ==
  LET n == f + W16 * ((ip + 3 - (f % 3)) % 3)
  IN  IF n < 6 THEN n + 3 * W16 ELSE n

\* the controller before render(f, ip) in a running sketch
DrawSsd(f, ip) ==
  LET f1 == IF ip # 0 THEN (f + W16 - 3) % W16 ELSE DrawPrevFrame(f, ip)
      f0 == IF ip # 0 THEN DrawPrevFrame(f, ip) ELSE (f + W16 - 3) % W16
  IN  [SsdReset EXCEPT
         !.mux = 31, !.offset = 16,
         !.start_line = IF ip # 0 THEN 0 ELSE 32,
         !.ptr = IF ip # 0 THEN 0 ELSE half_buf_sz,
         !.gddram = [j \in 1 .. GddramSize |->
                       IF j <= half_buf_sz THEN DrawByte(0, j - 1, f1, 1)
                       ELSE DrawByte(0, j - 1, f0, 0)]]

InitDraw ==
  /\ pc = "r_draw" /\ ret = "loop_sel"
  /\ sBuffer = ZeroBuf
  /\ demo_mode = 0 /\ button_held = FALSE
  /\ frame_period = U32(0, DEFAULT_FRAME_PERIOD_MS)
  /\ now = U32(1, 0)
  /\ next_frame = NextDeadline(now, now, frame_period)
  /\ ofs = half_buf_sz /\ cmdq = <<>>
  /\ dc = "data" /\ spif = TRUE /\ shreg = NoByte /\ wcol = FALSE
  /\ wire = <<>> /\ starts = 0
  /\ renders = 0
  /\ slept = FALSE /\ ticked = TRUE
  /\ old_deadline = U32(0, W16 - 428)
  /\ rem_seen = Sub32(old_deadline, now)
  /\ tick_at = now /\ prev_tick_at = <<>> /\ paced = TRUE
  /\ shown_hist = <<>>
  /\ BarIdle
  /\ i_ph \in 0 .. 1
  /\ three_stages = i_ph
  /\ frame_idx \in DrawFrames
  /\ frameCount = frame_idx
  /\ old_frames = (frame_idx + W16 - 1) % W16
  /\ ticks = DrawTick(frame_idx, i_ph) /\ calls = ticks
  /\ ssd = DrawSsd(frame_idx, i_ph)
  /\ snap = DrawScene(ZeroBuf, DrawPrevFrame(frame_idx, i_ph), 1 - i_ph)
  /\ px = Byte(snap, HalfBase(1 - i_ph) + half_buf_sz - 1)
  /\ cur_half = RenderHalf(1 - i_ph) /\ prev_half = RenderHalf(i_ph)
  /\ shown_at_render = cur_half

\* lines 230-272 in one step: draw, upload and wipe
render_call ==
  LET B == [wire |-> wire, ssd |-> ssd, starts |-> starts]
  IN  /\ pc = "r_draw"
      /\ snap' = DrawScene(sBuffer, frame_idx, i_ph)
      /\ sBuffer' = ClearHalf(snap', i_ph)
      /\ wire' = Upload(B, snap', i_ph).wire
      /\ ssd' = Upload(B, snap', i_ph).ssd
      /\ shown_at_render' = ShownHalf(ssd)
      /\ prev_half' = cur_half
      /\ cur_half' = RenderHalf(i_ph)
      /\ renders' = renders + 1
      /\ ofs' = half_buf_sz
      /\ px' = Byte(snap', HalfBase(i_ph) + half_buf_sz - 1)
      /\ pc' = ret
      /\ UNCHANGED <<barHist, shown_hist, ret, frameCount, three_stages, demo_mode,
                     button_held, next_frame, frame_period, now, i_ph, frame_idx,
                     cmdq, dc, spif, shreg, wcol, starts, ticks, calls, schedHist>>

NextDraw == render_call

SpecDraw == InitDraw /\ [][NextDraw]_vars

(***************************************************************************)
(* The calls between two tick bodies, from the running state InitLate:     *)
(* loop() is called every few microseconds up to the deadline and past it. *)
(***************************************************************************)
NextIdle ==
  \/ \E d \in IdleClockSteps : loop_idle(d, MaxIdleCalls)
  \/ \E d \in IdleClockSteps, pressed \in BOOLEAN : loop_tick(d, pressed, MaxIdleCalls)

SpecIdle == InitLate /\ [][NextIdle]_vars

(***************************************************************************)
(* A long run of tick bodies from the state setup() leaves: every loop()   *)
(* call comes later than the deadline, so every call runs the tick body.   *)
(***************************************************************************)
NextRun == \E d \in RunClockSteps, pressed \in BOOLEAN : loop_tick(d, pressed, MaxRunTicks)

SpecRun == InitRunning /\ [][NextRun]_vars

(***************************************************************************)
(* The mode call of line 321 around the frames where mode_anim folds its   *)
(* position: a sketch that has been running, in any of the five modes,     *)
(* after the tick body of frame 61 (the position reaches 0x1F at 62 and is *)
(* folded from 64 on), of frame 124 (the position passes 0x3F and returns  *)
(* to 0 at 128) and of frame 65533 (frameCount wraps to 0).                *)
(***************************************************************************)
AnimFrames == {61, 124, W16 - 3}

\* the tick body of frame n = 1 (mod 3), n > 6, in mode dm: stage 1, so
\* render(n, 1), ssd1306_select_gddram_half(1) and mode_sel_fns[dm](), with
\* the controller as the tick bodies before it left it
AnimTick(n, dm) ==
  LET B0 == [wire |-> <<>>, ssd |-> DrawSsd(n, 1), starts |-> 0]
      r  == render(ZeroBuf, B0, n, 1)
  IN  [buf |-> r.buf, drawn |-> r.drawn,
       bus |-> sendcmds(sendcmds(r.bus, ssd1306_select_gddram_half(SelectArg(1))),
                        mode_sel_fns(dm, n))]

\* the state the tick body of a frame of AnimFrames leaves; the history
\* variables start afresh
InitAnim ==
  /\ pc = "idle" /\ ret = "idle"
  /\ three_stages = 1
  /\ frame_period = U32(0, DEFAULT_FRAME_PERIOD_MS)
  /\ now = U32(1, 0)
  /\ next_frame = NextDeadline(now, now, frame_period)
  /\ i_ph = 1 /\ ofs = half_buf_sz /\ cmdq = <<>>
  /\ dc = "data" /\ spif = TRUE /\ shreg = NoByte /\ wcol = FALSE
  /\ shown_at_render = 0
  /\ cur_half = RenderHalf(1) /\ prev_half = RenderHalf(0)
  /\ renders = 1
  /\ ticks = 0 /\ calls = 0
  /\ slept = FALSE /\ ticked = FALSE /\ rem_seen = U32(0, 0)
  /\ old_deadline = next_frame
  /\ tick_at = <<>> /\ prev_tick_at = <<>> /\ paced = TRUE
  /\ shown_hist = <<>>
  /\ BarIdle
  /\ frameCount \in AnimFrames
  /\ demo_mode \in 0 .. NumModes - 1
  /\ button_held \in BOOLEAN
  /\ frame_idx = frameCount /\ old_frames = frameCount
  /\ sBuffer = AnimTick(frameCount, demo_mode).buf
  /\ snap = AnimTick(frameCount, demo_mode).drawn
  /\ px = Byte(snap, HalfBase(1) + half_buf_sz - 1)
  /\ wire = AnimTick(frameCount, demo_mode).bus.wire
  /\ ssd = AnimTick(frameCount, demo_mode).bus.ssd
  /\ starts = AnimTick(frameCount, demo_mode).bus.starts

NextAnim == \E d \in RunClockSteps, pressed \in BOOLEAN : loop_tick(d, pressed, MaxAnimTicks)

SpecAnim == InitAnim /\ [][NextAnim]_vars

(***************************************************************************)
(* The bar position over the frames of one period.  arduboy.frameCount is  *)
(* handed to render() as its 16-bit frame_idx; a period is the             *)
(* (32-6)*2*9 frames in which rt runs once through 0..51.                  *)
(***************************************************************************)
BarPeriod == (32 - 6) * 2 * 9

\* frame indices a period starts at: the first two periods after power-up and
\* the period in which the frame counter wraps
BarStarts == {0, BarPeriod, 140 * BarPeriod}

InitBar ==
  /\ PowerUp
  /\ bar_idx \in BarStarts
  /\ bar_n = 0
  /\ bar_top = rect_rel_top(bar_idx)
  /\ bar_prev = bar_top
  /\ bar_fell = FALSE

\* lines 287, 305, 237-240: frameCount++ and the geometry of the next frame
bar_frame ==
  /\ bar_n < BarPeriod - 1
  /\ bar_idx' = (bar_idx + 1) % W16
  /\ bar_n' = bar_n + 1
  /\ bar_top' = rect_rel_top(bar_idx')
  /\ bar_prev' = bar_top
  /\ bar_fell' = (bar_n >= 1 /\ (bar_fell \/ bar_top < bar_prev))
  /\ UNCHANGED <<pc, ret, progVars, now, localVars, busVars, renderHist, ticks,
                 calls, schedHist, shown_hist>>

NextBar == bar_frame

SpecBar == InitBar /\ [][NextBar]_vars

(***************************************************************************)
(* Properties of the rendering and of the bus traffic, checked under       *)
(* SpecBus.  A tick body is running or has just ended where ticked holds;  *)
(* it has ended where pc is "idle" again.                                  *)
(***************************************************************************)
\* C1, as the claim states it: every render of setup() and of the tick bodies
\* writes the local half other than the one the latest start-line command
\* named when the render began, and successive renders alternate
C1_AsStated ==
  cur_half # NoByte =>
    /\ cur_half # shown_at_render
    /\ (prev_half # NoByte => cur_half # prev_half)

\* C1, amended: a render of a tick body writes and clears the local half with
\* the SAME index as the half the latest start-line command named when the
\* render began, and the start-line command sent after it names the other
\* half; the renders of successive rendering ticks alternate between the
\* halves, but the first tick renders half 0 as setup()'s second render did;
\* setup() renders half 1 and then half 0, both while half 0 is selected
C1_RenderedHalf ==
  /\ (ticked /\ renders > 0) =>
       /\ cur_half = shown_at_render
       /\ (ticks > 1 => cur_half # prev_half)
       /\ (ticks = 1 => cur_half = prev_half)
       /\ (starts > 0 => ShownHalf(ssd) # cur_half)
  /\ (ticks = 0 /\ renders = 2) =>
       (prev_half = 1 /\ cur_half = 0 /\ shown_at_render = 0)

C1_Witness ==
  /\ ticked /\ renders > 0 /\ ticks = 3
  /\ prev_half = 0 /\ cur_half = 1 /\ shown_at_render = 1
  /\ starts = 1 /\ ShownHalf(ssd) = 0

\* C2: ssd1306_select_gddram_half(idx) sends exactly one command byte, 0x40
\* for idx = 0 and 0x60 for idx = 1; in setup() it is 0x40, and in a tick body
\* that renders it is the one byte after the upload and names the half other
\* than the local half rendered in that tick
C2_SelectByte ==
  /\ \A idx \in 0 .. 1 :
       ssd1306_select_gddram_half(idx) = <<IF idx = 0 THEN 64 ELSE 96>>
  /\ pc = "setup_r0" =>
       (Len(wire) = Len(mode_center) + 1 /\ wire[Len(wire)] = <<"cmd", 64>>)
  /\ (ticked /\ renders > 0 /\ pc = "loop_btn") =>
       /\ Len(wire) = half_buf_sz + 1
       /\ starts = 1
       /\ wire[Len(wire)] = <<"cmd", IF cur_half = 0 THEN 96 ELSE 64>>

C2_Witness ==
  /\ ticked /\ renders > 0 /\ pc = "loop_btn"
  /\ cur_half = 1
  /\ wire[Len(wire)] = <<"cmd", 64>>

\* C3: when render() has returned, the last 512 bytes the controller received
\* are data bytes, the bytes of the rendered half as the drawing left them, in
\* ascending address order; the renders of the call sent no other data byte;
\* and every byte of that half is zero
C3_Upload ==
  (renders > 0 /\ (pc \in {"setup_r1", "loop_sel"} \/ (pc = "idle" /\ calls = 0))) =>
    /\ Len(wire) >= 512
    /\ \A i \in 1 .. 512 :
         wire[Len(wire) - 512 + i] = <<"data", Byte(snap, cur_half * 512 + i - 1)>>
    /\ Cardinality({i \in DOMAIN wire : wire[i][1] = "data"}) = 512 * renders
    /\ \A k \in 0 .. 511 : Byte(sBuffer, cur_half * 512 + k) = 0

C3_Witness ==
  /\ pc = "loop_sel" /\ renders = 1 /\ cur_half = 1
  /\ Len(wire) = 512
  /\ \E i \in 1 .. 512 : wire[i][2] # 0
  /\ \A k \in 512 .. 1023 : Byte(sBuffer, k) = 0

\* C4: in a tick body that renders, nothing is on the bus while the drawing is
\* still to be done; the first 512 bytes received are data bytes and every byte
\* after them is a command byte; a command byte is shifted out only when all
\* 512 data bytes have been received; the start-line command comes after them
C4_Order ==
  ticked =>
    /\ pc = "r_draw" => (wire = <<>> /\ shreg = NoByte)
    /\ renders > 0 =>
         /\ Len(wire) > 0 =>
              ((wire[Len(wire)][1] = "data") <=> (Len(wire) <= half_buf_sz))
         /\ (shreg # NoByte /\ dc = "cmd") => Len(wire) >= half_buf_sz
         /\ starts > 0 =>
              (Len(wire) > half_buf_sz /\ wire[half_buf_sz + 1][2] \in {64, 96})

C4_Witness ==
  /\ ticked /\ renders = 1
  /\ pc = "sc_wait" /\ ret = "loop_btn"
  /\ shreg \in {64, 96} /\ dc = "cmd"
  /\ Len(wire) = half_buf_sz

\* C5, as the claim states it: every tick body, the hold tick included, sends
\* exactly one start-line command
C5_AsStated == (ticked /\ pc = "idle") => starts = 1

\* C5, amended: a tick body that renders sends exactly one start-line command;
\* the hold tick (three_stages = 2) sends none, only the six bytes of the mode
C5_StartLinePerTick ==
  (ticked /\ pc = "idle") =>
    /\ starts = (IF three_stages = 2 THEN 0 ELSE 1)
    /\ three_stages = 2 =>
         wire = [i \in 1 .. 6 |-> <<"cmd", mode_sel_fns(demo_mode, frameCount)[i]>>]

C5_Witness ==
  /\ ticked /\ pc = "idle"
  /\ three_stages = 2 /\ starts = 0 /\ Len(wire) = 6

\* C6: three_stages is always 0, 1 or 2; it has advanced by one step, 1, 2, 0,
\* 1, ..., for every tick body begun and not otherwise; a tick body renders and
\* uploads unless three_stages is 2, which is every third tick
C6_Stages ==
  /\ three_stages \in 0 .. 2
  /\ three_stages = ticks % 3
  /\ (ticked /\ pc = "idle") => renders = (IF three_stages = 2 THEN 0 ELSE 1)

C6_Witness ==
  /\ ticked /\ pc = "idle"
  /\ ticks = 3 /\ three_stages = 0 /\ renders = 1

\* C7, as the claim states it: the first tick body renders into local half 1,
\* uploads 512 bytes, leaves bytes 512..1023 zero and then sends 0x40
C7_AsStated ==
  (ticks = 1 /\ ticked /\ pc = "loop_btn") =>
    /\ cur_half = 1
    /\ Len(wire) = 513
    /\ \A k \in 512 .. 1023 : Byte(sBuffer, k) = 0
    /\ wire[513] = <<"cmd", 64>>

\* C7, amended: the first tick body renders into local half 0 (bytes 0..511),
\* uploads exactly those 512 bytes, leaves bytes 0..511 zero and then sends
\* 0x60
C7_FirstTick ==
  (ticks = 1 /\ ticked /\ pc = "loop_btn") =>
    /\ renders = 1 /\ cur_half = 0
    /\ \E k \in 0 .. 511 : Byte(snap, k) # 0
    /\ \A k \in 512 .. 1023 : Byte(snap, k) = 0
    /\ Len(wire) = 513
    /\ \A i \in 1 .. 512 : wire[i] = <<"data", Byte(snap, i - 1)>>
    /\ \A k \in 0 .. 511 : Byte(sBuffer, k) = 0
    /\ wire[513] = <<"cmd", 96>>

C7_Witness ==
  /\ ticks = 1 /\ ticked /\ pc = "loop_btn"
  /\ frameCount = 1 /\ i_ph = 1
  /\ cur_half = 0 /\ wire[513] = <<"cmd", 96>>

(***************************************************************************)
(* Properties of the scheduler, checked under Spec.                        *)
(***************************************************************************)
\* C8: the tick body never runs in a call where rem < frame_period; and when
\* every call comes exactly frame_period after the one before, two tick bodies
\* are at least frame_period of clock time apart
C8_Pacing ==
  /\ ticked => ~Less32(rem_seen, frame_period)
  /\ (paced /\ ticked /\ prev_tick_at # <<>>) =>
       ~Less32(Sub32(tick_at, prev_tick_at), frame_period)

C8_Witness ==
  /\ paced /\ ticked /\ prev_tick_at # <<>>
  /\ Sub32(tick_at, prev_tick_at) = U32(0, 2 * DEFAULT_FRAME_PERIOD_MS)

\* C9, as the claim states it: after a tick body the deadline is the deadline
\* before it plus frame_period, and the frame counter is one more than before
C9_AsStated ==
  ticked =>
    /\ next_frame = Add32(old_deadline, frame_period)
    /\ frameCount = (old_frames + 1) % W16

\* C9, amended: after a tick body the deadline is the clock reading of that
\* call plus frame_period (modulo 2^32), so it moves with the lateness of the
\* tick and is never the deadline before it plus frame_period; the frame
\* counter is one more than before (modulo 2^16)
C9_Deadline ==
  ticked =>
    /\ next_frame = Add32(now, frame_period)
    /\ next_frame # Add32(old_deadline, frame_period)
    /\ frameCount = (old_frames + 1) % W16

C9_Witness ==
  /\ ticked
  /\ frameCount = 0 /\ old_frames = W16 - 1
  /\ Less32(next_frame, old_deadline)

(***************************************************************************)
(* The bar position, checked under SpecBar.                                *)
(***************************************************************************)
\* C10: rect_rel_top lies in 0..26, and within a period of (32-6)*2*9 frames it
\* never goes up again once it has gone down, also in the period in which the
\* 16-bit frame counter wraps
C10_Triangle ==
  /\ bar_top \in 0 .. (32 - 6)
  /\ (bar_n >= 1 /\ bar_fell) => bar_top <= bar_prev

(***************************************************************************)
(* C11.  As stated: taking the displayed content after a tick body to be   *)
(* the GDDRAM half the latest start-line command names, in every window of *)
(* three consecutive tick bodies after setup() a region drawn with colour  *)
(* row 0, 1, 2 is white in 3, 2, 1 of the three ticks (row 3 is black in   *)
(* both phases, so white in none).                                         *)
(***************************************************************************)
C11_WhiteTicks(r) == Cardinality({i \in 1 .. Len(shown_hist) : shown_hist[i][r] = WHITE})

C11_GrayLevels ==
  /\ C11_WhiteTicks(0) = 3 /\ C11_WhiteTicks(1) = 2 /\ C11_WhiteTicks(2) = 1
  /\ \A ip \in 0 .. 1 : Color(3, ip) = BLACK

C11_AsStated == (pc = "idle" /\ Len(shown_hist) = 3) => C11_GrayLevels

\* C11, amended: the count holds for every window of three consecutive tick
\* bodies that begins at the third tick body after setup() or later; the
\* windows that begin at the first and second tick body show the stage-1
\* picture in three and in two of their ticks
C11_SteadyGray == (pc = "idle" /\ ticks >= 5) => (Len(shown_hist) = 3 /\ C11_GrayLevels)

\* the window of the fourth, fifth and sixth tick body has been shown
C11_Witness == pc = "idle" /\ ticks = 6 /\ Len(shown_hist) = 3 /\ C11_GrayLevels

(***************************************************************************)
(* C12.  As stated: the geometry configuration of a mode transmits the     *)
(* same fixed 6-byte command sequence every time it is called, for each of *)
(* the five modes: a tick body that leaves demo_mode as it was transmits   *)
(* the six bytes the tick body before it transmitted.                      *)
(***************************************************************************)
C12_ModeBytes(w) == [i \in 1 .. 6 |-> w[Len(w) - 6 + i]]

\* the latest bytes on the wire are those of a mode call
C12_AfterCall == Len(wire) >= 6 /\ \A i \in 1 .. 6 : C12_ModeBytes(wire)[i][1] = "cmd"

C12_AsStated ==
  [][(C12_AfterCall /\ ticks' = ticks + 1 /\ demo_mode' = demo_mode)
       => C12_ModeBytes(wire') = C12_ModeBytes(wire)]_vars

\* the position 0..31 of the triangle of period 128 frames at frame fc
C12_Fold(fc) ==
  LET p == (fc \div 2) % 64
      q == 63 - p
  IN  IF p < q THEN p ELSE q

\* C12, amended: every call transmits six command bytes and leaves the
\* program state as the statements before it set it; the sequence is fixed
\* for the modes 0, 1, 2 and 4, and for the default mode it sets multiplex
\* ratio operand 31 and display offset 16; the sixth byte of mode 3
\* (mode_anim) is the folded position computed from the frame counter, so in
\* loop() a call transmits the sequence of the call before it when the new
\* frameCount is odd (frameCount>>1 unchanged) or a multiple of 64 (the
\* turning points of the fold and the wrap), and another sequence otherwise
C12_ModeSequence ==
  [][(ticks' = ticks + 1) =>
       /\ Len(wire') >= 6
       /\ \A i \in 1 .. 6 : C12_ModeBytes(wire')[i][1] = "cmd"
       /\ ssd'.pending = 0
       /\ frameCount' = (frameCount + 1) % W16
       /\ three_stages' = (three_stages + 1) % 3
       /\ next_frame' = Add32(now', frame_period)
       /\ frame_period' = frame_period
       /\ sBuffer' = ZeroBuf
       /\ demo_mode' \in {demo_mode, (demo_mode + 1) % NumModes}
       /\ (demo_mode' = 0) => (ssd'.mux = 31 /\ ssd'.offset = 16 /\ ssd'.zoom = 0)
       /\ (demo_mode' = 1) => (ssd'.mux = 31 /\ ssd'.offset = 96 /\ ssd'.zoom = 0)
       /\ (demo_mode' = 2) => (ssd'.mux = 31 /\ ssd'.offset = 0 /\ ssd'.zoom = 0)
       /\ (demo_mode' = 4) => (ssd'.mux = 63 /\ ssd'.offset = 0 /\ ssd'.zoom = 1)
       /\ (demo_mode' = 3) =>
            (ssd'.mux = 31 /\ ssd'.zoom = 0 /\ ssd'.offset = C12_Fold(frameCount'))
       /\ (C12_AfterCall /\ demo_mode' = demo_mode /\ demo_mode # 3)
            => C12_ModeBytes(wire') = C12_ModeBytes(wire)
       /\ (C12_AfterCall /\ demo_mode' = demo_mode /\ demo_mode = 3)
            => (C12_ModeBytes(wire') = C12_ModeBytes(wire))
                 = (frameCount' % 2 = 1 \/ frameCount' % 64 = 0)]_vars

\* mode_anim has been called at frame 64, where frameCount>>1 has changed from
\* 31 to 32, and has transmitted the offset 31 of the call at frame 63 again
C12_Witness ==
  /\ pc = "idle" /\ ticks = 3 /\ demo_mode = 3
  /\ frameCount = 64 /\ old_frames = 63
  /\ C12_ModeBytes(wire) = [i \in 1 .. 6 |-> <<"cmd", mode_anim(63)[i]>>]
  /\ ssd.offset = 31

(***************************************************************************)
(* C13.  sendcmds() has the bus in command mode from its first wait to its *)
(* last byte and returns with the bus in data mode: a byte is only ever    *)
(* being shifted out as a sendcmds() byte in command mode or as an upload  *)
(* byte in data mode, and the controller latches it in that mode.          *)
(***************************************************************************)
C13_InSendcmds == pc \in {"sc_wait0", "sc_loop", "sc_wait"}

C13_BusMode ==
  /\ C13_InSendcmds => dc = "cmd"
  /\ ~C13_InSendcmds => dc = "data"
  /\ (shreg # NoByte) => (pc \in {"sc_wait", "r_loop", "r_last"})
  /\ (pc = "sc_wait" /\ shreg = NoByte) => wire[Len(wire)][1] = "cmd"
  /\ (pc \in {"r_loop", "r_last"} /\ shreg = NoByte) => wire[Len(wire)][1] = "data"
  /\ (pc = "idle" /\ wire # <<>> /\ ticked) =>
        \A i \in 1 .. Len(wire) : (wire[i][1] = "data") = (renders = 1 /\ i <= half_buf_sz)

\* a tick body has uploaded its 512 bytes and its start-line command has just
\* been latched
C13_Witness ==
  /\ pc = "sc_wait" /\ shreg = NoByte /\ ticked /\ ret = "loop_btn"
  /\ Len(wire) = half_buf_sz + 1
  /\ wire[half_buf_sz][1] = "data"
  /\ wire[half_buf_sz + 1][1] = "cmd"

(***************************************************************************)
(* C14.  With the write pointer at GDDRAM byte 0 at boot, advancing by one *)
(* per data byte and wrapping after 1024 bytes: the start-line command of  *)
(* a tick body selects the GDDRAM half that received the 512 bytes         *)
(* uploaded in that tick body.                                             *)
(***************************************************************************)
\* the GDDRAM half that ends where the write pointer stands
C14_UploadedHalf ==
  ((ssd.ptr + GddramSize - half_buf_sz) % GddramSize) \div half_buf_sz

C14_SelectsUploaded ==
  (pc = "idle" /\ ticked /\ renders = 1) =>
    /\ ssd.ptr % half_buf_sz = 0
    /\ \A i \in 1 .. half_buf_sz :
         ssd.gddram[C14_UploadedHalf * half_buf_sz + i] = wire[i][2]
    /\ ShownHalf(ssd) = C14_UploadedHalf

(***************************************************************************)
(* C15.  A loop() call that finds rem = next_frame - now (mod 2^32) below  *)
(* frame_period transmits no byte, leaves next_frame, the frame counter,   *)
(* three_stages, demo_mode, button_held and the local framebuffer as they  *)
(* were, and enters the idle sleep if and only if rem > 1500.              *)
(***************************************************************************)
C15_Rem == Sub32(next_frame, now')

C15_IdleCall ==
  [][(calls' = calls + 1 /\ Less32(C15_Rem, frame_period)) =>
       /\ ~ticked'
       /\ rem_seen' = C15_Rem
       /\ wire' = <<>>
       /\ UNCHANGED <<next_frame, frameCount, three_stages, demo_mode, button_held,
                      sBuffer, frame_period, ssd>>
       /\ slept' = Less32(U32(0, 1500), C15_Rem)]_vars

\* a call found rem = 1500 and returned without sleeping, after a call that
\* slept
C15_Witness ==
  /\ pc = "idle" /\ calls >= 2 /\ ~ticked /\ ~slept
  /\ rem_seen = U32(0, 1500)

(***************************************************************************)
(* C16.  When every byte written to SPDR raises SPIF and SPIF stays raised *)
(* until the next write, every busy-wait of sendcmds() and of the upload   *)
(* loop exits, and setup() and every tick body return.                     *)
(***************************************************************************)
C16_Terminates ==
  /\ (pc \in {"sc_wait0", "sc_wait"}) ~> (pc = "sc_loop")
  /\ (pc # "idle") ~> (pc = "idle")

\* a rendering tick body has passed all its waits and returned
C16_Witness ==
  /\ pc = "idle" /\ ticked /\ renders = 1
  /\ Len(wire) = half_buf_sz + 1 + 6
  /\ spif /\ shreg = NoByte

(***************************************************************************)
(* C17.  With the bus idle and SPIF raised when setup() starts, SPDR is    *)
(* never written while the byte written before it is still being shifted  *)
(* out: not by the first write of an upload, not by the writes in the      *)
(* upload loop, not by sendcmds().                                         *)
(***************************************************************************)
C17_NoCollision ==
  /\ ~wcol
  /\ spif = (shreg = NoByte)
  /\ (pc \in {"r_first", "sc_enter", "sc_wait0", "sc_loop"}) => shreg = NoByte

\* a tick body has made the unguarded first write of its upload and the first
\* write of the loop behind it
C17_Witness ==
  /\ pc = "r_loop" /\ ticked /\ ofs = 3 /\ shreg # NoByte /\ ~spif /\ ~wcol
  /\ Len(wire) = 1

(***************************************************************************)
(* C18.  For every frame_idx and both i_ph, all that render() draws (the   *)
(* strips at rows top_line..top_line+5, the logo at rows top_line+8..      *)
(* top_line+23, the bar at rows top_line+rect_rel_top..+5) lies in rows    *)
(* [top_line, top_line+32) of the half it uploads and clears, so the       *)
(* buffer, zeroed before, is all zero again when render() returns.         *)
(***************************************************************************)
\* the rows, relative to top_line, that the drawing calls of a frame cover
C18_DrawnRows(fidx) ==
  (0 .. 5) \cup (8 .. 23) \cup (rect_rel_top(fidx) .. rect_rel_top(fidx) + 5)

C18_ZeroOnReturn ==
  (pc = "loop_sel" /\ renders = 1) =>
    /\ \A k \in 0 .. BufSize - 1 : \A b \in 0 .. 7 :
         (Bit(Byte(snap, k), b) = 1) =>
           (8 * (k \div WIDTH) + b - top_line(i_ph)) \in C18_DrawnRows(frame_idx)
    /\ C18_DrawnRows(frame_idx) \subseteq 0 .. 31
    /\ sBuffer = ZeroBuf
    /\ \A i \in 1 .. half_buf_sz : wire[i] = <<"data", Byte(snap, HalfBase(i_ph) + i - 1)>>

\* render() has returned for the frame with the bar at its lowest position,
\* drawn in the rows 26..31 of the half
C18_Witness ==
  /\ pc = "loop_sel" /\ renders = 1 /\ i_ph = 0
  /\ rect_rel_top(frame_idx) = 32 - 6
  /\ Bit(Byte(snap, HalfBase(0) + 3 * WIDTH + 48), 7) = 1
  /\ sBuffer = ZeroBuf

(***************************************************************************)
(* C19.  For non-decreasing 32-bit clock readings, equal readings and      *)
(* readings past the wrap included, the reading at one tick body and the   *)
(* reading at the next differ by at least frame_period microseconds.       *)
(***************************************************************************)
C19_TickSpacing ==
  (pc = "idle" /\ ticked /\ prev_tick_at # <<>>) =>
    ~Less32(Sub32(tick_at, prev_tick_at), frame_period)

(***************************************************************************)
(* C20.  demo_mode is in 0..4 whenever it indexes mode_sel_fns; a tick     *)
(* body that samples the B button pressed after the tick body before it    *)
(* sampled it released advances demo_mode by one, from 4 to 0, and no      *)
(* other tick body and no other call changes it.  button_held holds the    *)
(* sample of the latest tick body.                                         *)
(***************************************************************************)
C20_ModeStep ==
  [][/\ demo_mode' \in 0 .. 4
     /\ (ticks' = ticks + 1) =>
          /\ demo_mode' = IF button_held' /\ ~button_held
                          THEN (IF demo_mode = 4 THEN 0 ELSE demo_mode + 1)
                          ELSE demo_mode
          /\ \A i \in 1 .. 6 :
               wire'[Len(wire') - 6 + i] = <<"cmd", mode_sel_fns(demo_mode', frameCount')[i]>>
     /\ (ticks' = ticks) => (demo_mode' = demo_mode /\ button_held' = button_held)]_vars

\* the fifth released-to-pressed transition has taken demo_mode from 4 to 0
C20_Witness ==
  /\ pc = "idle" /\ ticks = 9 /\ demo_mode = 0 /\ button_held

=============================================================================
